---- MODULE Spec2Model ----
(***************************************************************************)
(* Articles MCP adapter (keepnetlabs/remote-mcp-server-authless).          *)
(*                                                                         *)
(* The repository holds five revisions of the same adapter, each with a    *)
(* "search" and a "fetch" tool in front of one backend call:               *)
(*   "wildcard"   src/unnamed/part_000   1..234  (MyMCP, "*" only)         *)
(*   "classifier" src/unnamed/part_000 235..458  (MyMCP, intent routing)   *)
(*   "server"     src/src/index.ts               (ArticlesMCPServer)       *)
(*   "limit"      src/unnamed/part_001   1..196  (MyMCP, limit argument)   *)
(*   "logging"    src/unnamed/part_001 376..705  (MyMCP, console logging)  *)
(* JavaScript values are tagged records [t |-> type, v |-> payload];       *)
(* strings are sequences of one-character strings.                         *)
(***************************************************************************)
EXTENDS Integers, Sequences, FiniteSets, TLC

VARIABLES
  pc,              \* where each invocation stands
  rev,             \* the revision of the adapter that serves it
  cfg,             \* the environment (Env) its request came with
  tool,            \* "search" or "fetch"
  arg,             \* the tool arguments
  request,         \* the backend requests it has issued, in order
  reply,           \* how its backend exchange ended
  result,          \* what its handler returned or threw
  globalEnv,       \* mcpServer.env of the module-level server instance
  globalTransport, \* the transport that instance is connected to
  probe            \* a direct use of createSnippet: its arguments and results

vars == <<pc, rev, cfg, tool, arg, request, reply, result,
          globalEnv, globalTransport, probe>>

(***************************************************************************)
(* Bounds of the model.                                                    *)
(***************************************************************************)
NumInvs == 2
MaxChunks == 2
MaxRecords == 2
MaxTime == 1
MaxTextLen == 7
MaxBound == 7

Invs == 1..NumInvs

Revs == {"wildcard", "classifier", "server", "limit", "logging"}

(***************************************************************************)
(* JavaScript values.                                                      *)
(***************************************************************************)
Undef == [t |-> "undefined"]
Null == [t |-> "null"]
NaN == [t |-> "nan"]
Num(n) == [t |-> "number", v |-> n]
Str(s) == [t |-> "string", v |-> s]
Arr(s) == [t |-> "array", v |-> s]
Obj(r) == [t |-> "object", v |-> r]
\* The string that is the JSON serialisation of x (JSON.stringify(x)).
JsonText(x) == [t |-> "json", v |-> x]
Bool(b) == [t |-> "boolean", v |-> b]

IsNullish(x) == x.t \in {"undefined", "null"}

\* ToBoolean, as used by ||, && and if.
Truthy(x) ==
  CASE x.t \in {"undefined", "null", "nan"} -> FALSE
    [] x.t = "number" -> x.v # 0
    [] x.t = "string" -> Len(x.v) > 0
    [] x.t = "boolean" -> x.v
    [] OTHER -> TRUE

\* a || b
Or(a, b) == IF Truthy(a) THEN a ELSE b

\* x.f for a non-nullish x.
Get(x, f) ==
  CASE x.t = "object" -> IF f \in DOMAIN x.v THEN x.v[f] ELSE Undef
    [] x.t \in {"array", "string"} /\ f = "length" -> Num(Len(x.v))
    [] OTHER -> Undef

\* x?.f
OptGet(x, f) == IF IsNullish(x) THEN Undef ELSE Get(x, f)

\* x[0] of an array (undefined past the end or on a non-array)
First(x) == IF x.t = "array" /\ Len(x.v) > 0 THEN x.v[1] ELSE Undef

IsArray(x) == x.t = "array"

(***************************************************************************)
(* Strings: characters, case, whitespace, digits.                          *)
(***************************************************************************)
UpperLetters == <<"A","B","C","D","E","F","G","H","I","J","K","L","M",
                  "N","O","P","Q","R","S","T","U","V","W","X","Y","Z">>
LowerLetters == <<"a","b","c","d","e","f","g","h","i","j","k","l","m",
                  "n","o","p","q","r","s","t","u","v","w","x","y","z">>
DigitChars == <<"0","1","2","3","4","5","6","7","8","9">>

LowerChar(c) ==
  IF \E k \in 1..26 : UpperLetters[k] = c
  THEN LowerLetters[CHOOSE k \in 1..26 : UpperLetters[k] = c]
  ELSE c

\* String.prototype.toLowerCase
ToLowerCase(s) == [k \in 1..Len(s) |-> LowerChar(s[k])]

IsSpace(c) == c \in {" ", "\t", "\n"}
IsDigit(c) == \E k \in 1..10 : DigitChars[k] = c
DigitVal(c) == (CHOOSE k \in 1..10 : DigitChars[k] = c) - 1

\* String.prototype.trim
Trim(s) ==
  IF \A k \in 1..Len(s) : IsSpace(s[k]) THEN <<>>
  ELSE LET a == CHOOSE k \in 1..Len(s) :
                  ~IsSpace(s[k]) /\ \A j \in 1..(k-1) : IsSpace(s[j])
           b == CHOOSE k \in 1..Len(s) :
                  ~IsSpace(s[k]) /\ \A j \in (k+1)..Len(s) : IsSpace(s[j])
       IN SubSeq(s, a, b)

\* String.prototype.includes
Includes(s, w) ==
  \E k \in 0..(Len(s) - Len(w)) : SubSeq(s, k + 1, k + Len(w)) = w

\* String.prototype.startsWith
StartsWith(s, w) == Len(s) >= Len(w) /\ SubSeq(s, 1, Len(w)) = w

\* The value of a run of decimal digits.
RECURSIVE DigitsValue(_)
DigitsValue(d) ==
  IF Len(d) = 0 THEN 0
  ELSE 10 * DigitsValue(SubSeq(d, 1, Len(d) - 1)) + DigitVal(d[Len(d)])

\* The digits of the longest run of digits that starts at position k.
RECURSIVE DigitRunAt(_, _)
DigitRunAt(s, k) ==
  IF k > Len(s) \/ ~IsDigit(s[k]) THEN <<>>
  ELSE <<s[k]>> \o DigitRunAt(s, k + 1)

\* query.match(/(\d+)/): the first run of digits, <<>> when there is none.
FirstDigitRun(s) ==
  IF \E k \in 1..Len(s) : IsDigit(s[k])
  THEN DigitRunAt(s, CHOOSE k \in 1..Len(s) :
                       IsDigit(s[k]) /\ \A j \in 1..(k-1) : ~IsDigit(s[j]))
  ELSE <<>>

\* parseInt(s): leading whitespace, an optional sign, then decimal digits.
ParseInt(s) ==
  LET body == IF \A k \in 1..Len(s) : IsSpace(s[k]) THEN <<>>
              ELSE SubSeq(s, CHOOSE k \in 1..Len(s) :
                        ~IsSpace(s[k]) /\ \A j \in 1..(k-1) : IsSpace(s[j]),
                      Len(s))
      neg == Len(body) > 0 /\ body[1] = "-"
      rest == IF Len(body) > 0 /\ body[1] \in {"-", "+"} THEN Tail(body) ELSE body
      run == DigitRunAt(rest, 1)
  IN IF Len(run) = 0 THEN NaN
     ELSE Num(IF neg THEN 0 - DigitsValue(run) ELSE DigitsValue(run))

\* Number.prototype.toString of a natural number.
RECURSIVE NatDigits(_)
NatDigits(n) ==
  IF n < 10 THEN <<DigitChars[n + 1]>>
  ELSE NatDigits(n \div 10) \o <<DigitChars[(n % 10) + 1]>>

(***************************************************************************)
(* String literals of the source.                                          *)
(***************************************************************************)
kwAll == <<"a","l","l">>
kwEverything == <<"e","v","e","r","y","t","h","i","n","g">>
kwList == <<"l","i","s","t">>
kwLatest == <<"l","a","t","e","s","t">>
kwRecent == <<"r","e","c","e","n","t">>
kwNewest == <<"n","e","w","e","s","t">>
kwLast == <<"l","a","s","t">>
kwSon == <<"s","o","n">>
kwYeni == <<"y","e","n","i">>
Star == <<"*">>
DefaultStrapiUrl ==
  <<"h","t","t","p","s",":","/","/","t","i","m","e","l","y","-","b","e","n",
    "e","f","i","t","-","e","6","3","d","5","4","0","3","1","7",".","s","t",
    "r","a","p","i","a","p","p",".","c","o","m">>
ApiPath ==
  <<"/","a","p","i","/","a","r","t","i","c","l","e","s","-","m","c","p","/",
    "m","c","p","/","t","o","o","l","s","/","c","a","l","l">>
KeepnetBaseUrl ==
  <<"h","t","t","p","s",":","/","/","k","e","e","p","n","e","t","l","a","b",
    "s",".","c","o","m">>
ArticlesPath == <<"/","a","r","t","i","c","l","e","s","/">>
ExampleArticleUrl ==
  <<"h","t","t","p","s",":","/","/","e","x","a","m","p","l","e",".","c","o",
    "m","/","a","r","t","i","c","l","e","/">>
BlogPath == <<"/","b","l","o","g","/">>
HttpPrefix == <<"h","t","t","p">>
NoContentText ==
  <<"N","o"," ","c","o","n","t","e","n","t"," ","a","v","a","i","l","a","b",
    "l","e">>
UntitledText ==
  <<"U","n","t","i","t","l","e","d"," ","A","r","t","i","c","l","e">>
UnknownText == <<"u","n","k","n","o","w","n">>
Ellipsis == <<".",".",".">>
UndefinedText == <<"u","n","d","e","f","i","n","e","d">>

\* Strings whose characters no code path inspects (messages, labels) are
\* kept as one piece.
Text(s) == Str(<<s>>)

(***************************************************************************)
(* Page sizes of the search handlers.                                      *)
(***************************************************************************)
WildcardLimit == 20
LimitDefault == 20
LoggingLimit == 20
ServerLimit == 20
GetAllLimit == 100
LatestDefaultLimit == 10
SearchLimit == 50

(***************************************************************************)
(* Query classifier ("classifier" revision).                               *)
(***************************************************************************)
IsGetAllQuery(query) ==
  LET lowerQuery == ToLowerCase(query)
  IN \/ Len(query) = 0
     \/ Trim(query) = <<>>
     \/ Trim(query) = Star
     \/ Includes(lowerQuery, kwAll)
     \/ Includes(lowerQuery, kwEverything)
     \/ Includes(lowerQuery, kwList)

IsLatestQuery(query) ==
  LET lowerQuery == ToLowerCase(query)
  IN \/ Includes(lowerQuery, kwLatest)
     \/ Includes(lowerQuery, kwRecent)
     \/ Includes(lowerQuery, kwNewest)
     \/ Includes(lowerQuery, kwLast)
     \/ Includes(lowerQuery, kwSon)
     \/ Includes(lowerQuery, kwYeni)

\* Variant of LatestLimit that ignores the number in the query.
LatestLimitDefault(query) == LatestDefaultLimit

\* numberMatch ? parseInt(numberMatch[1]) : 10
LatestLimit(query) ==
  IF Len(FirstDigitRun(query)) > 0
  THEN DigitsValue(FirstDigitRun(query))
  ELSE LatestDefaultLimit

\* The retrieval intent of the classifier revision.
Intent(query) ==
  IF IsGetAllQuery(query) THEN "GetAll"
  ELSE IF IsLatestQuery(query) THEN "GetLatest"
  ELSE "Search"

GetAllCall(limit) ==
  [name |-> "get_all_articles", arguments |-> Obj([limit |-> Num(limit)])]

SearchCall(query, limit) ==
  [name |-> "search_articles",
   arguments |-> Obj([query |-> Str(query), limit |-> limit])]

\* Variant of ClassifierCalls that tests the recency rule first.
ClassifierCallsLatestFirst(query) ==
  IF IsLatestQuery(query) THEN <<GetAllCall(LatestLimit(query))>>
  ELSE IF IsGetAllQuery(query) THEN <<GetAllCall(GetAllLimit)>>
  ELSE <<SearchCall(query, Num(SearchLimit))>>

\* Variant of ClassifierCalls that repeats the call on the keyword path.
ClassifierCallsRepeated(query) ==
  IF IsGetAllQuery(query) THEN <<GetAllCall(GetAllLimit)>>
  ELSE IF IsLatestQuery(query) THEN <<GetAllCall(LatestLimit(query))>>
  ELSE <<SearchCall(query, Num(SearchLimit)),
         SearchCall(query, Num(SearchLimit))>>

\* The calls of the classifier revision: the first matching rule decides.
ClassifierCalls(query) ==
  IF IsGetAllQuery(query) THEN <<GetAllCall(GetAllLimit)>>
  ELSE IF IsLatestQuery(query) THEN <<GetAllCall(LatestLimit(query))>>
  ELSE <<SearchCall(query, Num(SearchLimit))>>

\* The backend calls the search handler of revision r issues for a query:
\* one entry per callStrapiAPI call on the path taken.
SearchCalls(r, a) ==
  CASE r = "wildcard" ->
         IF Trim(a.query) = Star THEN <<GetAllCall(WildcardLimit)>>
         ELSE <<SearchCall(a.query, Num(WildcardLimit))>>
    [] r = "limit" ->
         LET limit == IF a.limit.t = "undefined" THEN Num(LimitDefault)
                      ELSE a.limit
         IN IF Trim(a.query) = Star
            THEN <<[name |-> "get_all_articles",
                    arguments |-> Obj([limit |-> limit])]>>
            ELSE <<SearchCall(a.query, limit)>>
    [] r = "logging" ->
         IF Len(a.query) = 0 \/ Trim(a.query) = <<>> \/ Trim(a.query) = Star
         THEN <<GetAllCall(LoggingLimit)>>
         ELSE <<SearchCall(a.query, Num(LoggingLimit))>>
    [] r = "classifier" -> ClassifierCalls(a.query)
    [] r = "server" -> <<SearchCall(a.query, Num(ServerLimit))>>

\* The backend calls the fetch handler issues for an id.
FetchCalls(r, a) ==
  <<[name |-> "get_article_by_id",
     arguments |-> Obj([id |-> ParseInt(a.id)])]>>

ToolCalls(r, t, a) ==
  IF t = "search" THEN SearchCalls(r, a) ELSE FetchCalls(r, a)

(***************************************************************************)
(* JSON text.                                                              *)
(***************************************************************************)
\* What JSON.stringify keeps of a value: object members that are undefined
\* are dropped, undefined and NaN array elements become null.
RECURSIVE JsonClean(_)
JsonClean(x) ==
  CASE x.t = "object" ->
         Obj([k \in {f \in DOMAIN x.v : x.v[f].t # "undefined"} |->
                JsonClean(x.v[k])])
    [] x.t = "array" ->
         Arr([k \in 1..Len(x.v) |->
                IF x.v[k].t \in {"undefined", "nan"} THEN Null
                ELSE JsonClean(x.v[k])])
    [] x.t = "nan" -> Null
    [] OTHER -> x

\* JSON.stringify(x, null, 2)
JsonStringify(x) == JsonText(JsonClean(x))

\* Whether JSON.parse(text) returns (it throws a SyntaxError otherwise).
JsonParses(text) ==
  \/ text.t \in {"json", "number"}
  \/ text.t = "string" /\ Len(text.v) > 0
       /\ \A k \in 1..Len(text.v) : IsDigit(text.v[k])

\* JSON.parse(text) when it returns.
JsonParse(text) ==
  CASE text.t = "json" -> text.v
    [] text.t = "string" -> Num(DigitsValue(text.v))
    [] OTHER -> text

(***************************************************************************)
(* Outcomes of a call: a returned value or a thrown Error.                 *)
(***************************************************************************)
Return(v) == [ok |-> TRUE, value |-> v]
Throw(kind, message) ==
  [ok |-> FALSE, error |-> [kind |-> kind, message |-> message]]

\* new Error(m).message
ErrorMessage(m) ==
  CASE m.t = "string" -> m.v
    [] m.t = "undefined" -> <<>>
    [] m.t = "number" /\ m.v >= 0 -> NatDigits(m.v)
    [] m.t = "null" -> <<"null">>
    [] OTHER -> <<"[object Object]">>

(***************************************************************************)
(* Backend client: callStrapiAPI.                                          *)
(***************************************************************************)
UsesSentinelClient(r) == r \in {"wildcard", "limit", "logging"}

\* strapiUrl + "/api/articles-mcp/mcp/tools/call"
ApiUrl(env) ==
  LET strapiUrl == Or(OptGet(env, "STRAPI_URL"), Str(DefaultStrapiUrl))
  IN strapiUrl.v \o ApiPath

\* { articles: [], error: "Failed to parse JSON response" }
ParseFailureSentinel ==
  Obj([articles |-> Arr(<<>>), error |-> Text("Failed to parse JSON response")])

\* data.content[0]
Index0(x) ==
  CASE x.t = "array" -> First(x)
    [] x.t = "string" /\ Len(x.v) > 0 -> Str(<<x.v[1]>>)
    [] OTHER -> Get(x, "0")

\* The test that guards JSON.parse in the client.
HasContentWrapper(r, data) ==
  LET content == Get(data, "content")
  IN IF UsesSentinelClient(r)
     THEN Truthy(content) /\ IsArray(content)
            /\ Truthy(OptGet(Index0(content), "text"))
     ELSE Truthy(content) /\ Truthy(Index0(content))
            /\ Truthy(Get(Index0(content), "text"))

HttpErrorMessage(r, rp) ==
  <<"H","T","T","P"," ">> \o NatDigits(rp.status) \o <<":"," ">>
    \o rp.statusText
    \o (IF UsesSentinelClient(r) THEN <<" ","-"," ">> \o rp.body ELSE <<>>)

\* The outcome of callStrapiAPI for revision r when the exchange ended in rp.
CallStrapiAPI(r, rp) ==
  IF rp.k = "netfail"
  THEN Throw("TransportError", Text("fetch failed"))
  ELSE IF ~rp.ok
  THEN Throw("UpstreamHTTPError", Str(HttpErrorMessage(r, rp)))
  ELSE IF ~rp.parses
  THEN Throw("SyntaxError", Text("Unexpected token"))
  ELSE IF IsNullish(rp.data)
  THEN Throw("TypeError", Text("Cannot read properties of null"))
  ELSE IF Truthy(Get(rp.data, "error"))
  THEN Throw("UpstreamAPIError",
             IF UsesSentinelClient(r)
             THEN Str(ErrorMessage(Or(Get(Get(rp.data, "error"), "message"),
                                      Text("API returned error"))))
             ELSE Str(ErrorMessage(Get(Get(rp.data, "error"), "message"))))
  ELSE IF HasContentWrapper(r, rp.data)
  THEN LET text == Get(Index0(Get(rp.data, "content")), "text")
       IN IF JsonParses(text) THEN Return(JsonParse(text))
          ELSE IF UsesSentinelClient(r) THEN Return(ParseFailureSentinel)
          ELSE Return(text)
  ELSE Return(rp.data)

(***************************************************************************)
(* Snippet builder and URL building.                                       *)
(***************************************************************************)
SnippetMax == 512
ServerSnippetMax == 200

SnippetMaxOf(r) == IF r = "server" THEN ServerSnippetMax ELSE SnippetMax

\* snippet.lastIndexOf(" "): zero-based, -1 when there is no space.
LastIndexOfSpace(s) ==
  IF \E k \in 1..Len(s) : s[k] = " "
  THEN (CHOOSE k \in 1..Len(s) :
          s[k] = " " /\ \A j \in (k+1)..Len(s) : s[j] # " ") - 1
  ELSE -1

\* Variant of CreateSnippet that also cuts at a space exactly at 80%.
CreateSnippetFromEighty(text, maxLength) ==
  IF ~Truthy(text) \/ Len(text.v) <= maxLength THEN text
  ELSE LET snippet == SubSeq(text.v, 1, maxLength)
           lastSpace == LastIndexOfSpace(snippet)
       IN IF lastSpace * 10 >= maxLength * 8
          THEN Str(SubSeq(snippet, 1, lastSpace) \o Ellipsis)
          ELSE Str(snippet \o Ellipsis)

\* createSnippet(text, maxLength) for a string or falsy text.
CreateSnippet(text, maxLength) ==
  IF ~Truthy(text) \/ Len(text.v) <= maxLength THEN text
  ELSE LET snippet == SubSeq(text.v, 1, maxLength)
           lastSpace == LastIndexOfSpace(snippet)
       IN IF lastSpace * 10 > maxLength * 8
          THEN Str(SubSeq(snippet, 1, lastSpace) \o Ellipsis)
          ELSE Str(snippet \o Ellipsis)

\* `${x}` inside a template literal.
TemplateText(x) ==
  CASE x.t = "string" -> x.v
    [] x.t = "number" /\ x.v >= 0 -> NatDigits(x.v)
    [] x.t = "undefined" -> UndefinedText
    [] x.t = "null" -> <<"n","u","l","l">>
    [] OTHER -> <<"[object Object]">>

\* Variant of IdToString that takes a falsy id, such as 0, for a missing
\* one.
IdToStringTruthy(x) ==
  CASE ~Truthy(x) -> Undef
    [] x.t = "number" /\ x.v >= 0 -> Str(NatDigits(x.v))
    [] x.t = "string" -> x
    [] OTHER -> Text("[object Object]")

\* x?.toString() of an id
IdToString(x) ==
  CASE IsNullish(x) -> Undef
    [] x.t = "number" /\ x.v >= 0 -> Str(NatDigits(x.v))
    [] x.t = "string" -> x
    [] OTHER -> Text("[object Object]")

\* buildArticleUrl(article) of the revisions that have it.
BuildArticleUrl(r, env, article) ==
  LET baseUrl == IF r = "limit" THEN KeepnetBaseUrl
                 ELSE Or(OptGet(env, "STRAPI_URL"), Str(DefaultStrapiUrl)).v
      url == Get(article, "url")
  IN IF Truthy(url)
     THEN IF StartsWith(url.v, HttpPrefix) THEN url ELSE Str(baseUrl \o url.v)
     ELSE Str(baseUrl \o BlogPath
                \o TemplateText(Or(Get(article, "articleId"), Get(article, "id"))))

\* article.url || article.link || `<base>${article.id}` of the revisions
\* without buildArticleUrl.
InlineArticleUrl(r, article) ==
  Or(Or(Get(article, "url"), Get(article, "link")),
     Str((IF r = "server" THEN ExampleArticleUrl
          ELSE DefaultStrapiUrl \o ArticlesPath)
           \o TemplateText(Get(article, "id"))))

ArticleUrl(r, env, article) ==
  IF r \in {"classifier", "server"} THEN InlineArticleUrl(r, article)
  ELSE BuildArticleUrl(r, env, article)

\* Whether mapping the record throws a TypeError: a null or undefined
\* element, or a url that is no string handed to startsWith.
RecordThrows(r, article) ==
  \/ IsNullish(article)
  \/ /\ r \notin {"classifier", "server"}
     /\ Truthy(Get(article, "url"))
     /\ Get(article, "url").t # "string"

(***************************************************************************)
(* Article normalizer: search documents.                                   *)
(***************************************************************************)
\* Variant of SearchTextContent that prefers description to fullContent.
SearchTextContentDescriptionFirst(r, article) ==
  LET summaryFirst ==
        Or(Or(Or(Get(article, "summary"), Get(article, "excerpt")),
              Get(article, "description")), Str(NoContentText))
      fullFirst ==
        Or(Or(Or(Get(article, "description"), Get(article, "fullContent")),
              Get(article, "summary")), Str(NoContentText))
      split == IF Truthy(Or(Get(article, "summary"), Get(article, "excerpt")))
               THEN summaryFirst ELSE fullFirst
  IN CASE r \in {"wildcard", "logging"} -> split
       [] r = "limit" ->
            IF Truthy(Get(article, "content")) THEN Get(article, "content")
            ELSE split
       [] OTHER ->
            Or(Or(Or(Get(article, "content"), Get(article, "description")),
                  Get(article, "excerpt")), Str(NoContentText))

\* The body text a search document is cut from.
SearchTextContent(r, article) ==
  LET summaryFirst ==
        Or(Or(Or(Get(article, "summary"), Get(article, "excerpt")),
              Get(article, "description")), Str(NoContentText))
      fullFirst ==
        Or(Or(Or(Get(article, "fullContent"), Get(article, "description")),
              Get(article, "summary")), Str(NoContentText))
      split == IF Truthy(Or(Get(article, "summary"), Get(article, "excerpt")))
               THEN summaryFirst ELSE fullFirst
  IN CASE r \in {"wildcard", "logging"} -> split
       [] r = "limit" ->
            IF Truthy(Get(article, "content")) THEN Get(article, "content")
            ELSE split
       [] OTHER ->
            Or(Or(Or(Get(article, "content"), Get(article, "description")),
                  Get(article, "excerpt")), Str(NoContentText))

\* category, backfilled from the first tag ("logging" revision).
SearchCategory(article) ==
  LET tags == Get(article, "tags")
  IN IF ~Truthy(Get(article, "category")) /\ Truthy(tags) /\ IsArray(tags)
          /\ Len(tags.v) > 0
     THEN tags.v[1]
     ELSE Get(article, "category")

\* Math.random().toString() for the drawn digit d.
RandomId(d) == Str(<<"0", ".", d>>)

\* Whether the id of a record falls back to Math.random().
NeedsRandomId(article) ==
  ~IsNullish(article) /\ ~Truthy(IdToString(Get(article, "id")))

\* The number of Math.random() calls made for the first k records of s.
RandomCalls(s, k) == Cardinality({j \in 1..k : NeedsRandomId(s[j])})

SearchTitle(r, article) ==
  IF r \in {"classifier", "server"}
  THEN Or(Or(Get(article, "title"), Get(article, "name")), Str(UntitledText))
  ELSE Or(Get(article, "title"), Str(UntitledText))

\* One element of transformSearchResults' map.
SearchDoc(r, env, article, d) ==
  LET base == [id |-> Or(IdToString(Get(article, "id")), RandomId(d)),
               title |-> SearchTitle(r, article),
               text |-> IF r = "limit" THEN SearchTextContent(r, article)
                        ELSE CreateSnippet(SearchTextContent(r, article),
                                           SnippetMaxOf(r)),
               url |-> ArticleUrl(r, env, article)]
  IN IF r = "logging"
     THEN Obj([id |-> base.id, title |-> base.title, text |-> base.text,
               url |-> base.url,
               metadata |->
                 Obj([category |-> Or(SearchCategory(article), Text("Blog")),
                      author |-> Get(article, "author"),
                      publishedAt |-> Get(article, "publishedAt"),
                      tags |-> Get(article, "tags"),
                      relevanceScore |-> Get(article, "relevanceScore")])])
     ELSE Obj(base)

\* Whether transformSearchResults(searchResponse) throws.
TransformSearchThrows(r, searchResponse) ==
  /\ Truthy(searchResponse) /\ IsArray(searchResponse)
  /\ \E k \in 1..Len(searchResponse.v) : RecordThrows(r, searchResponse.v[k])

\* transformSearchResults(searchResponse) when it returns; rnd[j] is the
\* digit the j-th call of Math.random draws.
TransformSearchResults(r, env, searchResponse, rnd) ==
  IF ~Truthy(searchResponse) \/ ~IsArray(searchResponse) THEN Arr(<<>>)
  ELSE Arr([k \in 1..Len(searchResponse.v) |->
              SearchDoc(r, env, searchResponse.v[k],
                        IF NeedsRandomId(searchResponse.v[k])
                        THEN rnd[RandomCalls(searchResponse.v, k)]
                        ELSE "0")])

(***************************************************************************)
(* Article normalizer: fetch documents.                                    *)
(***************************************************************************)
\* { ...a, ...b } on the member records of two objects
Merge(a, b) ==
  [k \in (DOMAIN a) \cup (DOMAIN b) |-> IF k \in DOMAIN b THEN b[k] ELSE a[k]]

\* { ...fields, ...article.metadata }: only an object contributes members.
SpreadMetadata(fields, metadata) ==
  IF metadata.t = "object" THEN Merge(fields, metadata.v) ELSE fields

FetchMetadata(r, article) ==
  CASE r \in {"wildcard", "limit"} ->
         [author |-> Get(article, "author"),
          publishedAt |-> Get(article, "publishedAt"),
          category |-> Get(article, "category"),
          source |-> Text("Keepnet Labs Blog")]
    [] r = "logging" ->
         [author |-> Get(article, "author"),
          publishedAt |-> Get(article, "publishedAt"),
          updatedAt |-> Get(article, "updatedAt"),
          category |-> Get(article, "category"),
          tags |-> Get(article, "tags"),
          source |-> Text("Keepnet Labs Blog"),
          readingTime |-> Get(article, "readingTime"),
          wordCount |-> Get(article, "wordCount"),
          seo |-> Get(article, "seo")]
    [] r = "classifier" ->
         SpreadMetadata(
           [author |-> Get(article, "author"),
            publishedAt |-> Or(Get(article, "publishedAt"),
                               Get(article, "created_at")),
            category |-> Get(article, "category"),
            tags |-> Get(article, "tags"),
            updatedAt |-> Or(Get(article, "updatedAt"),
                             Get(article, "updated_at")),
            source |-> Text("Strapi CMS")],
           Get(article, "metadata"))
    [] OTHER ->
         SpreadMetadata(
           [author |-> Get(article, "author"),
            publishedAt |-> Or(Get(article, "publishedAt"),
                               Get(article, "created_at")),
            category |-> Get(article, "category"),
            tags |-> Get(article, "tags"),
            updatedAt |-> Or(Get(article, "updatedAt"),
                             Get(article, "updated_at"))],
           Get(article, "metadata"))

FetchText(r, article) ==
  IF r \in {"classifier", "server"}
  THEN Or(Or(Or(Get(article, "content"), Get(article, "description")),
             Get(article, "body")), Str(NoContentText))
  ELSE Or(Or(Or(Or(Get(article, "content"), Get(article, "fullContent")),
                Get(article, "description")), Get(article, "summary")),
          Str(NoContentText))

\* transformFetchResult(article) for a record that does not throw.
TransformFetchResult(r, env, article) ==
  Obj([id |-> Or(IdToString(Get(article, "id")), Str(UnknownText)),
       title |-> SearchTitle(r, article),
       text |-> FetchText(r, article),
       url |-> ArticleUrl(r, env, article),
       metadata |-> Obj(FetchMetadata(r, article))])

(***************************************************************************)
(* Recency sort of the classifier revision.                                *)
(***************************************************************************)
\* new Date(x).getTime(): x is the number 0 or a date string. Date strings
\* are four-digit years and time is counted in years since 1970.
DateGetTime(x) ==
  CASE x.t = "number" -> x.v
    [] x.t = "string" /\ Len(x.v) = 4 /\ (\A k \in 1..4 : IsDigit(x.v[k])) ->
         DigitsValue(x.v) - 1970

\* new Date(a.publishedAt || a.created_at || a.updatedAt || 0).getTime()
SortKey(a) ==
  DateGetTime(Or(Or(Or(Get(a, "publishedAt"), Get(a, "created_at")),
                    Get(a, "updatedAt")), Num(0)))

\* Variant of CompareByDate that orders the oldest record first.
CompareOldestFirst(a, b) == SortKey(a) - SortKey(b)

\* The comparator (a, b) => dateB.getTime() - dateA.getTime()
CompareByDate(a, b) == SortKey(b) - SortKey(a)

\* x placed into the sorted s behind every element it does not precede.
RECURSIVE InsertSorted(_, _)
InsertSorted(s, x) ==
  IF Len(s) = 0 THEN <<x>>
  ELSE IF CompareByDate(Head(s), x) <= 0
       THEN <<Head(s)>> \o InsertSorted(Tail(s), x)
       ELSE <<x>> \o s

\* Array.prototype.sort with the comparator: a stable sort.
RECURSIVE SortByDate(_)
SortByDate(s) ==
  IF Len(s) = 0 THEN <<>>
  ELSE InsertSorted(SortByDate(SubSeq(s, 1, Len(s) - 1)), s[Len(s)])

\* Whether the comparator throws: it reads a member of null or undefined.
SortThrows(s) == Len(s) >= 2 /\ \E k \in 1..Len(s) : IsNullish(s[k])

(***************************************************************************)
(* Tool dispatcher: the search and fetch handlers.                         *)
(***************************************************************************)
TextItem(text) == Obj([type |-> Text("text"), text |-> text])

\* { content: [{ type: "text", text }] }
Envelope(text) == Obj([content |-> Arr(<<TextItem(text)>>)])

\* { content: [{ type: "text", text }], isError: true }
ErrorEnvelope(text) ==
  Obj([content |-> Arr(<<TextItem(text)>>), isError |-> Bool(TRUE)])

\* raw?.articles || []
ArticlesOf(raw) == Or(OptGet(raw, "articles"), Arr(<<>>))

EmptyListEnvelope == Envelope(JsonStringify(Arr(<<>>)))

\* The "no articles" payload of the logging revision.
NoArticlesPayload(query) ==
  Obj([message |->
         IF Len(query) > 0 /\ Trim(query) # <<>> /\ Trim(query) # Star
         THEN Text("No articles found for your search query")
         ELSE Text("No articles available"),
       query |-> Str(query),
       suggestions |-> Arr(<<Text("Try broader keywords"),
                             Text("Check spelling"),
                             Text("Use different terms")>>),
       availableCategories |-> Arr(<<Text("Social Engineering"),
                                     Text("Human Risk Management"),
                                     Text("Malware"),
                                     Text("Phishing Simulation"),
                                     Text("Security Awareness Training")>>)])

\* The payload of the logging revision's catch blocks.
FailedPayload(what, error, key, value) ==
  Obj([k \in {"error", "message", key, "timestamp"} |->
         CASE k = "error" -> Text(what)
           [] k = "message" -> error.message
           [] k = "timestamp" -> Text("now")
           [] OTHER -> Str(value)])

TypeErrorOutcome == Throw("TypeError", Text("Cannot read properties"))

\* The body of the try block of the search handlers that read raw.articles.
SearchTryArticles(r, env, a, raw, rnd) ==
  LET articles == ArticlesOf(raw)
      empty == Get(articles, "length") = Num(0)
      results == IF IsArray(articles)
                 THEN TransformSearchResults(r, env, articles, rnd)
                 ELSE Arr(<<>>)
  IN IF ~empty /\ TransformSearchThrows(r, articles) THEN TypeErrorOutcome
     ELSE CASE r = "wildcard" ->
                 IF empty THEN Return(EmptyListEnvelope)
                 ELSE Return(Envelope(JsonStringify(results)))
            [] r = "limit" ->
                 IF empty THEN Return(Obj([results |-> Arr(<<>>)]))
                 ELSE Return(Obj([results |-> results]))
            [] r = "logging" ->
                 IF empty
                 THEN Return(Envelope(JsonStringify(NoArticlesPayload(a.query))))
                 ELSE Return(Obj([content |->
                        Arr([k \in 1..Len(results.v) |->
                               TextItem(JsonStringify(results.v[k]))])]))

\* The body of the try block of the search handlers that map the response.
SearchTryResponse(r, env, a, raw, rnd) ==
  LET sorts == r = "classifier" /\ Intent(a.query) = "GetLatest"
                 /\ IsArray(raw)
      response == IF sorts /\ ~SortThrows(raw.v)
                  THEN Arr(SortByDate(raw.v)) ELSE raw
  IN IF (sorts /\ SortThrows(raw.v)) \/ TransformSearchThrows(r, response)
     THEN TypeErrorOutcome
     ELSE Return(Envelope(JsonStringify(
                   TransformSearchResults(r, env, response, rnd))))

\* What the catch block of the search handler makes of a thrown error.
SearchCatch(r, a, error) ==
  CASE r = "wildcard" -> Return(EmptyListEnvelope)
    [] r = "limit" -> Return(Obj([results |-> Arr(<<>>)]))
    [] r = "logging" ->
         Return(Envelope(JsonStringify(
                  FailedPayload("Search failed", error, "query", a.query))))
    [] r = "classifier" ->
         Return(Envelope(Str(<<"Error searching articles: ">>
                               \o error.message.v)))
    [] r = "server" ->
         Return(ErrorEnvelope(Str(<<"Error: ">> \o error.message.v)))

\* The records the search handler hands to transformSearchResults.
MappedRecords(r, rp) ==
  LET called == CallStrapiAPI(r, rp)
      mapped == IF ~called.ok THEN Undef
                ELSE IF UsesSentinelClient(r) THEN ArticlesOf(called.value)
                ELSE called.value
  IN IF IsArray(mapped) THEN mapped.v ELSE <<>>

\* The search handler from the completion of the backend exchange rp on.
SearchHandler(r, env, a, rp, rnd) ==
  LET called == CallStrapiAPI(r, rp)
      tried == IF ~called.ok THEN called
               ELSE IF UsesSentinelClient(r)
                    THEN SearchTryArticles(r, env, a, called.value, rnd)
                    ELSE SearchTryResponse(r, env, a, called.value, rnd)
  IN IF tried.ok THEN tried ELSE SearchCatch(r, a, tried.error)

NotFoundOutcome == Throw("NotFound", Text("Document not found"))

\* The payload of the logging revision's "not found" return.
NotFoundPayload(id) ==
  Obj([error |-> Text("Document not found"),
       id |-> Str(id),
       message |-> Text("The requested document could not be found")])

\* Variant of FetchTry that takes the whole decoded result for the article
\* when it has no article member (raw?.article || raw).
FetchTryWholeResult(r, env, a, raw) ==
  IF r \in {"classifier", "server"}
  THEN IF RecordThrows(r, raw) THEN TypeErrorOutcome
       ELSE Return(Envelope(JsonStringify(TransformFetchResult(r, env, raw))))
  ELSE LET article == Or(OptGet(raw, "article"), raw)
       IN IF ~Truthy(article)
          THEN IF r = "logging"
               THEN Return(Envelope(JsonStringify(NotFoundPayload(a.id))))
               ELSE NotFoundOutcome
          ELSE IF RecordThrows(r, article) THEN TypeErrorOutcome
          ELSE IF r = "limit"
               THEN Return(TransformFetchResult(r, env, article))
               ELSE Return(Envelope(JsonStringify(
                             TransformFetchResult(r, env, article))))

\* The body of the try block of the fetch handler.
FetchTry(r, env, a, raw) ==
  IF r \in {"classifier", "server"}
  THEN IF RecordThrows(r, raw) THEN TypeErrorOutcome
       ELSE Return(Envelope(JsonStringify(TransformFetchResult(r, env, raw))))
  ELSE LET article == OptGet(raw, "article")
       IN IF ~Truthy(article)
          THEN IF r = "logging"
               THEN Return(Envelope(JsonStringify(NotFoundPayload(a.id))))
               ELSE NotFoundOutcome
          ELSE IF RecordThrows(r, article) THEN TypeErrorOutcome
          ELSE IF r = "limit"
               THEN Return(TransformFetchResult(r, env, article))
               ELSE Return(Envelope(JsonStringify(
                             TransformFetchResult(r, env, article))))

\* What the catch block of the fetch handler makes of a thrown error.
FetchCatch(r, a, error) ==
  CASE r \in {"wildcard", "limit"} -> [ok |-> FALSE, error |-> error]
    [] r = "logging" ->
         Return(Envelope(JsonStringify(
                  FailedPayload("Fetch failed", error, "id", a.id))))
    [] r = "classifier" ->
         Return(Envelope(Str(<<"Error fetching article: ">>
                               \o error.message.v)))
    [] r = "server" ->
         Return(ErrorEnvelope(Str(<<"Error: ">> \o error.message.v)))

\* The fetch handler from the completion of the backend exchange rp on.
FetchHandler(r, env, a, rp) ==
  LET called == CallStrapiAPI(r, rp)
      tried == IF ~called.ok THEN called
               ELSE FetchTry(r, env, a, called.value)
  IN IF tried.ok THEN tried ELSE FetchCatch(r, a, tried.error)

(***************************************************************************)
(* Inputs: environments, queries, ids, records and backend replies.        *)
(***************************************************************************)
TestBaseUrl == <<"h","t","t","p","s",":","/","/","x",".","t","e","s","t">>

Cfgs == {Undef, Obj([STRAPI_URL |-> Str(TestBaseUrl)])}

Words ==
  {<<" ">>, Star, <<"A","l","l">>, kwList, kwLatest, <<"L","A","S","T">>,
   kwSon, kwSon \o <<" ","2">>, <<"5">>, <<"2","x","7">>, <<"c","a","t">>,
   <<"s","m">>, <<"p","e","r">>}

\* Every query made of at most n words, written without separators.
RECURSIVE QueriesOf(_)
QueriesOf(n) ==
  IF n = 0 THEN {<<>>}
  ELSE QueriesOf(n - 1)
         \cup {q \o w : q \in QueriesOf(n - 1), w \in Words}

Queries == QueriesOf(MaxChunks) \cup {kwEverything, kwRecent, kwNewest, kwYeni}

ToolQueries == QueriesOf(1) \cup {kwEverything, kwSon \o <<"5">>}

FewQueries == {<<"c","a","t">>}

Ids == {<<"1">>, <<"4","2">>, <<"a","b","c">>, <<>>}
FewIds == {<<"1">>}

Limits == {Undef, Num(5)}

ArticleA ==
  Obj([id |-> Num(1), title |-> Str(<<"A">>),
       summary |-> Str(<<"s","h","o","r","t">>)])
ArticleB ==
  Obj([articleId |-> Num(42), content |-> Str(<<"b","o","d","y">>),
       url |-> Str(<<"/","b","l","o","g","/","5">>)])

SearchPayloads ==
  {Arr(<<>>), Arr(<<ArticleA>>), Arr(<<ArticleA, ArticleB>>), Arr(<<Null>>),
   Obj([articles |-> Arr(<<>>)]), Obj([articles |-> Arr(<<ArticleA, ArticleB>>)]),
   Obj([articles |-> Arr(<<Null>>)]), Obj([articles |-> Str(<<"a","b","c">>)]),
   Null}

FetchPayloads ==
  {Obj([article |-> ArticleA]), Obj([article |-> ArticleB]),
   Obj([article |-> Null]), Obj([mcpInfo |-> Text("info")]),
   ArticleA, Null}

NetFail == [k |-> "netfail"]
HttpFail ==
  [k |-> "http", ok |-> FALSE, status |-> 500,
   statusText |-> <<"I","n","t","e","r","n","a","l">>,
   body |-> <<"o","o","p","s">>]
BadBody == [k |-> "http", ok |-> TRUE, parses |-> FALSE]
OkBody(data) == [k |-> "http", ok |-> TRUE, parses |-> TRUE, data |-> data]

\* { content: [{ type: "text", text }] } as the backend sends it
Wrapped(text) == Obj([content |-> Arr(<<TextItem(text)>>)])

NotJsonText == Str(<<"n","o","t","-","j","s","o","n">>)
BoomText == Str(<<"b","o","o","m">>)
ApiError == Obj([error |-> Obj([message |-> BoomText])])
ApiErrorWithContent(p) ==
  Obj([error |-> Obj([message |-> BoomText]),
       content |-> Arr(<<TextItem(JsonText(p))>>)])

FailureReplies ==
  {NetFail, HttpFail, BadBody, OkBody(Null), OkBody(ApiError),
   OkBody(Wrapped(NotJsonText))}

RepliesOf(payloads) ==
  FailureReplies
    \cup {OkBody(Wrapped(JsonText(p))) : p \in payloads}
    \cup {OkBody(p) : p \in payloads \ {Null}}
    \cup {OkBody(ApiErrorWithContent(p)) : p \in payloads \ {Null}}

SearchReplies == RepliesOf(SearchPayloads)
FetchReplies == RepliesOf(FetchPayloads)
FewReplies ==
  {NetFail, OkBody(Wrapped(JsonText(Obj([articles |-> Arr(<<ArticleA>>),
                                         article |-> ArticleA]))))}

\* Date strings: the years 1970 .. 1970 + MaxTime.
Years == {NatDigits(1970 + n) : n \in 0..MaxTime}
Stamps == {Undef} \cup {Str(y) : y \in Years}

\* The timestamp members <<publishedAt, created_at, updatedAt>> of a record:
\* at most two of them present, and two present ones of different years.
StampShapes ==
  {s \in Stamps \X Stamps \X Stamps :
     /\ \E k \in 1..3 : s[k] = Undef
     /\ \A k, m \in 1..3 : k # m /\ s[k] # Undef => s[k] # s[m]}

\* A record with id n and the given timestamp members.
DatedRecord(n, s) ==
  Obj([id |-> Num(n), publishedAt |-> s[1], created_at |-> s[2],
       updatedAt |-> s[3]])

\* The reply whose payload is the list of dated records with the given
\* timestamp members; element k has id k.
DatedReply(shapes) ==
  OkBody(Wrapped(JsonText(Arr([k \in 1..Len(shapes) |->
                                 DatedRecord(k, shapes[k])]))))

LatestQueries == {kwSon \o <<" ","2">>, <<"c","a","t">>}

RandomDigits == {"3", "7"}

(***************************************************************************)
(* The state machine.                                                      *)
(***************************************************************************)
NoArg == [t |-> "none"]
NoReply == [k |-> "none"]
NoResult == [ok |-> FALSE, error |-> [kind |-> "none", message |-> Undef]]

\* No use of createSnippet outside the tools.
NoProbe == [text |-> Undef, maxLength |-> 0, outs |-> <<>>]

\* The tool state before any request.
InitTools ==
  /\ pc = [i \in Invs |-> "idle"]
  /\ rev = [i \in Invs |-> "none"]
  /\ cfg = [i \in Invs |-> Undef]
  /\ tool = [i \in Invs |-> "none"]
  /\ arg = [i \in Invs |-> NoArg]
  /\ request = [i \in Invs |-> <<>>]
  /\ reply = [i \in Invs |-> NoReply]
  /\ result = [i \in Invs |-> NoResult]
  /\ globalEnv = Undef
  /\ globalTransport = 0

Init == InitTools /\ probe = NoProbe

\* this.env as the handlers of invocation i read it.
EnvOf(i) == IF rev[i] = "server" THEN globalEnv ELSE cfg[i]

\* The transport the instance serving invocation i is connected to: the
\* module-level server of the "server" revision, an agent of its own in
\* the others.
TransportOf(i) == IF rev[i] = "server" THEN globalTransport ELSE i

\* A request reaches the worker. The "server" revision stores the
\* environment in, and connects the new transport to, the module-level
\* instance; the MyMCP revisions serve the session from an agent of its own.
Connect(i, r, c) ==
  /\ pc[i] = "idle"
  /\ pc' = [pc EXCEPT ![i] = "connected"]
  /\ rev' = [rev EXCEPT ![i] = r]
  /\ cfg' = [cfg EXCEPT ![i] = c]
  /\ globalEnv' = IF r = "server" THEN c ELSE globalEnv
  /\ globalTransport' = IF r = "server" THEN i ELSE globalTransport
  /\ UNCHANGED <<tool, arg, request, reply, result, probe>>

\* fetch(apiUrl, { method: "POST", body: JSON.stringify({name, arguments}) })
OutboundRequest(env, call) ==
  [url |-> ApiUrl(env),
   body |-> JsonStringify(Obj([name |-> Text(call.name),
                               arguments |-> call.arguments]))]

\* The tool call arrives and its handler runs up to the awaited fetch.
Invoke(i, t, a) ==
  /\ pc[i] = "connected"
  /\ pc' = [pc EXCEPT ![i] = "awaiting"]
  /\ tool' = [tool EXCEPT ![i] = t]
  /\ arg' = [arg EXCEPT ![i] = a]
  /\ LET issued == ToolCalls(rev[i], t, a)
     IN request' = [request EXCEPT ![i] =
          request[i] \o [k \in 1..Len(issued) |->
                           OutboundRequest(EnvOf(i), issued[k])]]
  /\ UNCHANGED <<rev, cfg, reply, result, globalEnv, globalTransport, probe>>

\* The backend exchange completes, with a response or a transport failure.
Respond(i, rp) ==
  /\ pc[i] = "awaiting"
  /\ pc' = [pc EXCEPT ![i] = "replied"]
  /\ reply' = [reply EXCEPT ![i] = rp]
  /\ UNCHANGED <<rev, cfg, tool, arg, request, result, globalEnv,
                 globalTransport, probe>>

\* The handler resumes with the outcome of the exchange and runs to its end.
Finish(i, rnd) ==
  /\ pc[i] = "replied"
  /\ pc' = [pc EXCEPT ![i] = "done"]
  /\ result' = [result EXCEPT ![i] =
       IF tool[i] = "search"
       THEN SearchHandler(rev[i], EnvOf(i), arg[i], reply[i], rnd)
       ELSE FetchHandler(rev[i], EnvOf(i), arg[i], reply[i])]
  /\ UNCHANGED <<rev, cfg, tool, arg, request, reply, globalEnv,
                 globalTransport, probe>>

SearchArgs(qs, r) ==
  {[query |-> q, limit |-> l] :
     q \in qs, l \in IF r = "limit" THEN Limits ELSE {Undef}}
FetchArgs(ids) == {[id |-> d] : d \in ids}

\* The draws of Math.random() the handler of invocation i may see.
RandomDraws(i) ==
  LET mapped == IF tool[i] = "search" THEN MappedRecords(rev[i], reply[i])
                ELSE <<>>
  IN [1..RandomCalls(mapped, Len(mapped)) -> RandomDigits]

\* The inputs an invocation may be given where it stands.
CanInvoke(i) == pc[i] = "connected"
CanRespond(i) == pc[i] = "awaiting"
\* Variant of CanFinish in which the handler is resumed by a response only
\* and stays suspended when the exchange ended in a transport failure.
CanFinishOnResponse(i) == pc[i] = "replied" /\ reply[i].k # "netfail"
CanFinish(i) == pc[i] = "replied"

\* Concurrent invocations over a few inputs.
Next ==
  \E i \in Invs :
    \/ \E r \in Revs, c \in Cfgs : Connect(i, r, c)
    \/ CanInvoke(i) /\ \E a \in SearchArgs(FewQueries, rev[i]) :
                         Invoke(i, "search", a)
    \/ CanInvoke(i) /\ \E a \in FetchArgs(FewIds) : Invoke(i, "fetch", a)
    \/ CanRespond(i) /\ \E rp \in FewReplies : Respond(i, rp)
    \/ CanFinish(i) /\ \E rnd \in RandomDraws(i) : Finish(i, rnd)

Spec == Init /\ [][Next]_vars

\* One invocation of either tool over every reply.
NextTool ==
  \/ \E r \in Revs, c \in Cfgs : Connect(1, r, c)
  \/ CanInvoke(1) /\ \E a \in SearchArgs(ToolQueries, rev[1]) :
                       Invoke(1, "search", a)
  \/ CanInvoke(1) /\ \E a \in FetchArgs(Ids) : Invoke(1, "fetch", a)
  \/ CanRespond(1)
       /\ \E rp \in IF tool[1] = "search" THEN SearchReplies ELSE FetchReplies :
            Respond(1, rp)
  \/ CanFinish(1) /\ \E rnd \in RandomDraws(1) : Finish(1, rnd)

SpecTool == Init /\ [][NextTool]_vars

\* The same invocation under the scheduling the runtime gives it: an exchange
\* that was started completes (the premise that the backend answers or the
\* transport fails), and an async handler whose awaited promise has settled
\* is resumed by the event loop.
RespondTool ==
  CanRespond(1)
    /\ \E rp \in IF tool[1] = "search" THEN SearchReplies ELSE FetchReplies :
         Respond(1, rp)
\* The step in which the handler runs from the await to its end. Under
\* NextTool the steps that take pc[1] to "done" are the Finish steps, and
\* Finish is enabled wherever CanFinish holds: the code after the await is
\* straight-line code over finite arrays with no further await.
FinishTool == CanFinish(1) /\ pc' = [pc EXCEPT ![1] = "done"]

SpecToolLive ==
  Init /\ [][NextTool]_vars /\ WF_vars(RespondTool) /\ WF_pc(FinishTool)

\* One search invocation over every query.
NextClassify ==
  \/ \E r \in Revs : Connect(1, r, Undef)
  \/ CanInvoke(1) /\ \E a \in SearchArgs(Queries, rev[1]) :
                       Invoke(1, "search", a)
  \/ CanRespond(1) /\ \E rp \in FewReplies : Respond(1, rp)
  \/ CanFinish(1) /\ \E rnd \in RandomDraws(1) : Finish(1, rnd)

SpecClassify == Init /\ [][NextClassify]_vars

\* One search invocation of the classifier revision over dated records.
NextLatest ==
  \/ Connect(1, "classifier", Undef)
  \/ CanInvoke(1) /\ \E a \in SearchArgs(LatestQueries, rev[1]) :
                       Invoke(1, "search", a)
  \/ CanRespond(1)
       /\ \E n \in 0..MaxRecords : \E shapes \in [1..n -> StampShapes] :
            Respond(1, DatedReply(shapes))
  \/ CanFinish(1) /\ \E rnd \in RandomDraws(1) : Finish(1, rnd)

SpecLatest == Init /\ [][NextLatest]_vars

\* The texts createSnippet is applied to: every string of at most
\* MaxTextLen letters, spaces and line breaks.
TextChars == {"a", " ", "\n"}
Texts == UNION {[1..n -> TextChars] : n \in 0..MaxTextLen}

\* createSnippet(text, maxLength) applied to a text, and then to its own
\* result: outs holds the results in order.
InitSnippet ==
  /\ InitTools
  /\ probe \in {[text |-> Str(s), maxLength |-> l, outs |-> <<>>] :
                  s \in Texts, l \in 1..MaxBound}

ApplySnippet ==
  /\ Len(probe.outs) < 2
  /\ probe' = [probe EXCEPT !.outs =
       Append(@, CreateSnippet(IF @ = <<>> THEN probe.text ELSE @[Len(@)],
                               probe.maxLength))]
  /\ UNCHANGED <<pc, rev, cfg, tool, arg, request, reply, result, globalEnv,
                 globalTransport>>

SpecSnippet == InitSnippet /\ [][ApplySnippet]_vars

(***************************************************************************)
(* Properties: how an invocation and its backend exchange ended.           *)
(***************************************************************************)
\* The handler of invocation i has issued its backend call.
Called(i) == pc[i] \in {"awaiting", "replied", "done"}
Ended(i) == pc[i] = "done"

\* The invocation ended in a raised error, in an envelope flagged isError,
\* or in a successful response.
Raised(i) == Ended(i) /\ ~result[i].ok
Flagged(i) ==
  Ended(i) /\ result[i].ok /\ Truthy(Get(result[i].value, "isError"))
Succeeded(i) ==
  Ended(i) /\ result[i].ok /\ ~Truthy(Get(result[i].value, "isError"))

\* The text of the first content item of a response envelope.
PayloadText(v) == Get(First(Get(v, "content")), "text")

\* The payload is the empty list or an explanatory object.
EmptyOrExplanatory(v) ==
  /\ PayloadText(v).t = "json"
  /\ PayloadText(v).v = Arr(<<>>) \/ PayloadText(v).v.t = "object"

\* The ways a backend exchange fails.
TransportFailed(rp) == rp.k = "netfail"
HttpRejected(rp) == rp.k = "http" /\ ~rp.ok
Decoded(rp) == rp.k = "http" /\ rp.ok /\ rp.parses /\ ~IsNullish(rp.data)
HasErrorField(rp) == Decoded(rp) /\ Truthy(Get(rp.data, "error"))
InnerText(rp) == Get(First(Get(rp.data, "content")), "text")
UndecodableInner(rp) ==
  /\ Decoded(rp) /\ ~HasErrorField(rp)
  /\ InnerText(rp).t = "string" /\ Len(InnerText(rp).v) > 0
  /\ ~JsonParses(InnerText(rp))

\* The decoded result of the backend call carries no article record.
NoArticleRecord(v) ==
  ~Truthy(OptGet(v, "article")) /\ ~Truthy(OptGet(v, "id"))

\* C1 (as stated): whatever the query and however the backend call fails
\* (transport failure, non-success status, error field, undecodable inner
\* JSON), a search invocation of the "wildcard" or "server" revision ends
\* in a successful response, neither raised nor flagged as an error, whose
\* payload is empty or explanatory.
C1_SearchNeverSurfacesFailure ==
  \A i \in Invs :
    ( /\ Ended(i) /\ tool[i] = "search"
      /\ rev[i] \in {"wildcard", "server"}
      /\ \/ TransportFailed(reply[i]) \/ HttpRejected(reply[i])
         \/ HasErrorField(reply[i]) \/ UndecodableInner(reply[i]) )
      => Succeeded(i) /\ EmptyOrExplanatory(result[i].value)

\* C2 (as stated): when the backend call of a fetch invocation of the
\* "wildcard" or "logging" revision ends in a transport failure, a
\* non-success status, an error field or no article record, the invocation
\* ends in a tool-level error, never in a successful response.
C2_FetchAbsorbsNoFailure ==
  \A i \in Invs :
    ( /\ Ended(i) /\ tool[i] = "fetch"
      /\ rev[i] \in {"wildcard", "logging"}
      /\ \/ TransportFailed(reply[i]) \/ HttpRejected(reply[i])
         \/ HasErrorField(reply[i])
         \/ /\ CallStrapiAPI(rev[i], reply[i]).ok
            /\ NoArticleRecord(CallStrapiAPI(rev[i], reply[i]).value) )
      => Raised(i) \/ Flagged(i)

\* C3 (as stated): when the backend call of a fetch invocation of the
\* "wildcard", "logging" or "server" revision succeeds and its decoded
\* result carries no article record, the invocation fails with NotFound
\* ("Document not found") and no document is built.
C3_FetchNotFound ==
  \A i \in Invs :
    ( /\ Ended(i) /\ tool[i] = "fetch"
      /\ rev[i] \in {"wildcard", "logging", "server"}
      /\ CallStrapiAPI(rev[i], reply[i]).ok
      /\ NoArticleRecord(CallStrapiAPI(rev[i], reply[i]).value) )
      => result[i] = NotFoundOutcome

\* C4 (as stated): when the backend answers a search invocation of the
\* "wildcard" or "server" revision with success status and the content
\* wrapper around text that is not JSON, the client returns the sentinel
\* (an empty article collection and a parse-failure marker) and the
\* invocation ends in a successful envelope holding the empty list.
C4_ParseFailureSentinel ==
  \A i \in Invs :
    ( /\ Ended(i) /\ tool[i] = "search"
      /\ rev[i] \in {"wildcard", "server"}
      /\ UndecodableInner(reply[i]) )
      => /\ CallStrapiAPI(rev[i], reply[i]).ok
         /\ Get(CallStrapiAPI(rev[i], reply[i]).value, "articles") = Arr(<<>>)
         /\ Truthy(Get(CallStrapiAPI(rev[i], reply[i]).value, "error"))
         /\ Succeeded(i)
         /\ PayloadText(result[i].value) = JsonText(Arr(<<>>))

\* C5: every tool invocation issues exactly one backend call: none before
\* its handler runs, one from then on, whatever the revision, the query or
\* id, and whatever the backend returns.
C5_ExactlyOneOutboundCall ==
  \A i \in Invs : Len(request[i]) = IF Called(i) THEN 1 ELSE 0

\* C5 witness: a search of the classifier revision whose backend call was
\* rejected has ended, with one call issued.
C5_Witness ==
  \E i \in Invs :
    /\ Ended(i) /\ tool[i] = "search" /\ rev[i] = "classifier"
    /\ HttpRejected(reply[i])
    /\ Len(request[i]) = 1

\* C6 (as stated): no state is shared between concurrent invocations: the
\* backend call of an invocation goes to the base URL of its own
\* configuration, and while it is in flight the instance serving it stays
\* connected to its own transport.
C6_NoSharedState ==
  \A i \in Invs :
    /\ Called(i) => request[i][1].url = ApiUrl(cfg[i])
    /\ pc[i] \in {"connected", "awaiting", "replied"} => TransportOf(i) = i

\* The vocabulary of the classifier, by substring in any letter casing.
ContainsWord(q, w) ==
  \E a \in 1..(Len(q) - Len(w) + 1) :
    ToLowerCase(SubSeq(q, a, a + Len(w) - 1)) = w

MatchesGetAll(q) ==
  \/ \A k \in 1..Len(q) : IsSpace(q[k])
  \/ Trim(q) = <<"*">>
  \/ \E w \in {<<"a","l","l">>, <<"e","v","e","r","y","t","h","i","n","g">>,
               <<"l","i","s","t">>} : ContainsWord(q, w)

HasRecency(q) ==
  \E w \in {<<"l","a","t","e","s","t">>, <<"r","e","c","e","n","t">>,
            <<"n","e","w","e","s","t">>, <<"l","a","s","t">>,
            <<"s","o","n">>, <<"y","e","n","i">>} : ContainsWord(q, w)

HasNumber(q) == \E k \in 1..Len(q) : IsDigit(q[k])

\* The value of the first run of digits of a query that has one.
FirstNumber(q) ==
  LET a == CHOOSE a \in 1..Len(q) :
             IsDigit(q[a]) /\ \A j \in 1..(a - 1) : ~IsDigit(q[j])
      b == CHOOSE b \in a..Len(q) :
             /\ \A j \in a..b : IsDigit(q[j])
             /\ b = Len(q) \/ ~IsDigit(q[b + 1])
  IN DigitsValue(SubSeq(q, a, b))

\* The operation and the arguments of the backend call of invocation i.
CallName(i) == Get(request[i][1].body.v, "name")
CallArgs(i) == Get(request[i][1].body.v, "arguments")

\* The call that retrieves the n most recent or the first n articles.
IsGetAllWith(i, n) ==
  CallName(i) = Text("get_all_articles") /\ CallArgs(i) = Obj([limit |-> Num(n)])

\* C7 (as stated): for every query that is empty, whitespace-only, "*"
\* after trimming, or that contains "all", "everything" or "list" in any
\* casing, the search handler of the "classifier" and of the "wildcard"
\* revision calls get_all_articles with limit 100.
C7_GetAllSelected ==
  \A i \in Invs :
    ( /\ Called(i) /\ tool[i] = "search"
      /\ rev[i] \in {"classifier", "wildcard"}
      /\ MatchesGetAll(arg[i].query) )
      => IsGetAllWith(i, 100)

\* C8 (as stated): for every query with a recency keyword the classifier
\* revision selects GetLatest: get_all_articles with limit N, the first
\* digit run of the query, and with limit 10 when it has no digit.
C8_LatestLimitAsStated ==
  \A i \in Invs :
    ( /\ Called(i) /\ tool[i] = "search" /\ rev[i] = "classifier"
      /\ HasRecency(arg[i].query) )
      => IsGetAllWith(i, IF HasNumber(arg[i].query)
                         THEN FirstNumber(arg[i].query) ELSE 10)

\* C8 (amended): for every query with a recency keyword that does not match
\* the GetAll rule, the classifier revision calls get_all_articles with
\* limit N, the first digit run of the query, and with limit 10 when the
\* query has no digit.
C8_LatestLimit ==
  \A i \in Invs :
    ( /\ Called(i) /\ tool[i] = "search" /\ rev[i] = "classifier"
      /\ HasRecency(arg[i].query) /\ ~MatchesGetAll(arg[i].query) )
      => IsGetAllWith(i, IF HasNumber(arg[i].query)
                         THEN FirstNumber(arg[i].query) ELSE 10)

\* C8 witness: a recency query outside the GetAll rule with two digit runs,
\* 2 and then 7, was sent with limit 2.
C8_Witness ==
  \E i \in Invs :
    /\ Called(i) /\ tool[i] = "search" /\ rev[i] = "classifier"
    /\ HasRecency(arg[i].query) /\ ~MatchesGetAll(arg[i].query)
    /\ ContainsWord(arg[i].query, <<"2","x","7">>)
    /\ FirstNumber(arg[i].query) = 2
    /\ IsGetAllWith(i, 2)

\* C9: the rules of the classifier revision apply in the order GetAll,
\* GetLatest, Search: a query that matches the GetAll rule calls
\* get_all_articles with limit 100 even when it also holds a recency
\* keyword or a number, and a query that matches neither rule calls
\* search_articles with the query as it was given.
C9_FirstMatchWins ==
  \A i \in Invs :
    (Called(i) /\ tool[i] = "search" /\ rev[i] = "classifier")
      => /\ MatchesGetAll(arg[i].query) => IsGetAllWith(i, 100)
         /\ (~MatchesGetAll(arg[i].query) /\ ~HasRecency(arg[i].query))
              => /\ CallName(i) = Text("search_articles")
                 /\ Get(CallArgs(i), "query") = Str(arg[i].query)

\* C9 witness: a query that matches the GetAll rule and holds a recency
\* keyword and a number was sent as get_all_articles with limit 100.
C9_Witness ==
  \E i \in Invs :
    /\ Called(i) /\ tool[i] = "search" /\ rev[i] = "classifier"
    /\ MatchesGetAll(arg[i].query) /\ HasRecency(arg[i].query)
    /\ HasNumber(arg[i].query)
    /\ IsGetAllWith(i, 100)

\* The records the backend sent to invocation i inside the content wrapper
\* and the documents its search returned.
SentRecords(i) == InnerText(reply[i]).v.v
ReturnedDocs(i) == PayloadText(result[i].value).v.v

\* The timestamp of a record: its first present member among publishedAt,
\* created_at and updatedAt, in years since 1970; 0 when it has none.
StampTime(rec) ==
  LET present == {f \in {"publishedAt", "created_at", "updatedAt"} :
                    Get(rec, f).t = "string"}
      first == IF "publishedAt" \in present THEN "publishedAt"
               ELSE IF "created_at" \in present THEN "created_at"
               ELSE "updatedAt"
  IN IF present = {} THEN 0 ELSE DigitsValue(Get(rec, first).v) - 1970

\* The time of the record with the id of a returned document.
DocTime(i, doc) ==
  StampTime(SentRecords(i)[DigitsValue(Get(doc, "id").v)])

FieldValues(s) == {Undef, Str(<<>>), Str(s)}

\* Records that differ in their body text members; each member, when it
\* has text, holds its own letter.
TextRecords ==
  {Obj([id |-> Num(1), title |-> Str(<<"T">>), summary |-> s, excerpt |-> e,
        description |-> d, fullContent |-> f, content |-> c]) :
     s \in FieldValues(<<"S">>), e \in FieldValues(<<"E">>),
     d \in FieldValues(<<"D">>), f \in FieldValues(<<"F">>),
     c \in FieldValues(<<"C">>)}

\* A text of n letters without a space.
Letters(n) == [k \in 1..n |-> "a"]

\* Records whose body text is one letter longer than a snippet may be.
LongRecords ==
  {Obj([id |-> Num(1), title |-> Str(<<"T">>),
        summary |-> Str(Letters(n + 1)), content |-> Str(Letters(n + 1))]) :
     n \in {SnippetMax, ServerSnippetMax}}

\* Records that differ in url, articleId and id.
UrlRecords ==
  {Obj([title |-> Str(<<"T">>), url |-> u, articleId |-> a, id |-> d]) :
     u \in {Undef, Str(<<>>), Str(<<"/","b","l","o","g","/","5">>),
            Str(<<"h","t","t","p","s",":","/","/","y",".","t","e","s","t",
                  "/","a">>)},
     a \in {Undef, Num(42)},
     d \in {Undef, Num(7)}}

\* Sparse records that differ in id and title.
IdRecords ==
  {Obj([id |-> d, title |-> tt]) :
     d \in {Undef, Null, Num(0), Num(7), Str(<<"x">>), Str(<<>>)},
     tt \in {Undef, Str(<<>>), Str(<<"T">>)}}

\* Records with and without an upstream metadata object, whose members
\* collide with an adapter field (author) or add a new one (lang).
MetaRecords ==
  {Obj([id |-> Num(1), title |-> Str(<<"T">>), author |-> Str(<<"A">>),
        metadata |-> m]) :
     m \in {Undef,
            Obj([author |-> Str(<<"M">>)]),
            Obj([lang |-> Str(<<"e", "n">>)]),
            Obj([author |-> Str(<<"M">>), lang |-> Str(<<"e", "n">>)])}}

Records ==
  TextRecords \cup LongRecords \cup UrlRecords \cup IdRecords \cup MetaRecords

\* The reply that carries one record in the shape tool t of revision r
\* reads it from.
DocReply(r, t, rec) ==
  OkBody(Wrapped(JsonText(
    IF t = "search"
    THEN IF UsesSentinelClient(r) THEN Obj([articles |-> Arr(<<rec>>)])
         ELSE Arr(<<rec>>)
    ELSE IF UsesSentinelClient(r) THEN Obj([article |-> rec])
         ELSE rec)))

NextDocs ==
  \/ \E r \in Revs, c \in Cfgs : Connect(1, r, c)
  \/ CanInvoke(1) /\ \E a \in SearchArgs(FewQueries, rev[1]) :
                       Invoke(1, "search", a)
  \/ CanInvoke(1) /\ \E a \in FetchArgs(FewIds) : Invoke(1, "fetch", a)
  \/ CanRespond(1) /\ \E rec \in Records :
                        Respond(1, DocReply(rev[1], tool[1], rec))
  \/ CanFinish(1) /\ \E rnd \in RandomDraws(1) : Finish(1, rnd)

SpecDocs == Init /\ [][NextDocs]_vars

(***************************************************************************)
(* Properties of the documents.                                            *)
(***************************************************************************)
\* The record the backend sent to invocation i.
SentRecord(i) ==
  LET p == InnerText(reply[i]).v
  IN IF IsArray(p) THEN p.v[1]
     ELSE IF IsArray(Get(p, "articles")) THEN Get(p, "articles").v[1]
     ELSE IF "article" \in DOMAIN p.v THEN Get(p, "article")
     ELSE p

\* The documents a successful search returned, whatever the envelope.
SearchDocsOf(i) ==
  LET v == result[i].value
  IN IF Get(v, "results") # Undef THEN Get(v, "results").v
     ELSE IF PayloadText(v).v.t = "array" THEN PayloadText(v).v.v
     ELSE [k \in 1..Len(Get(v, "content").v) |->
             Get(Get(v, "content").v[k], "text").v]

\* The document a successful fetch returned.
FetchDocOf(i) ==
  LET v == result[i].value
  IN IF Get(v, "content") # Undef THEN PayloadText(v).v ELSE v

SearchedOne(i) ==
  /\ Succeeded(i) /\ tool[i] = "search" /\ Len(SearchDocsOf(i)) = 1
FetchedOne(i) == Succeeded(i) /\ tool[i] = "fetch"

\* C11 (as stated): the text of every search document of the "wildcard"
\* and of the "limit" revision is at most 512 characters long, the
\* ellipsis included.
C11_SnippetWithinMax ==
  \A i \in Invs :
    (SearchedOne(i) /\ rev[i] \in {"wildcard", "limit"})
      => Len(Get(SearchDocsOf(i)[1], "text").v) <= 512

\* C12 (as stated): createSnippet is idempotent: applied to its own result
\* with the same bound it returns that result.
C12_SnippetIdempotent ==
  Len(probe.outs) = 2 => probe.outs[2] = probe.outs[1]

\* The snippet of s for the bound l that cuts at the last character of ws
\* in the first l characters when its position is past 80% of l.
SnippetCutAt(s, l, ws) ==
  IF Len(s) <= l THEN s
  ELSE LET marks == {k \in 0..(l - 1) : s[k + 1] \in ws}
           p == CHOOSE k \in marks : \A j \in marks : j <= k
       IN IF marks # {} /\ 10 * p > 8 * l
          THEN SubSeq(s, 1, p) \o <<".", ".", ".">>
          ELSE SubSeq(s, 1, l) \o <<".", ".", ".">>

\* C19 (as stated): createSnippet returns a text of at most maxLength
\* characters unchanged; otherwise it cuts at the last whitespace of the
\* first maxLength characters when that position is strictly past 80% of
\* maxLength, at maxLength in every other case, and appends the ellipsis.
C19_SnippetRuleAsStated ==
  Len(probe.outs) >= 1
    => probe.outs[1] =
         Str(SnippetCutAt(probe.text.v, probe.maxLength, {" ", "\n", "\t"}))

\* C19 (amended): the same rule with the cut taken at the last space
\* character; line breaks and tabs are no places to cut.
C19_SnippetRule ==
  Len(probe.outs) >= 1
    => probe.outs[1] = Str(SnippetCutAt(probe.text.v, probe.maxLength, {" "}))

\* C19 witness: a text longer than the bound, with a line break and then
\* a space as the last character of the window, was cut at the space.
C19_Witness ==
  /\ Len(probe.outs) >= 1
  /\ Len(probe.text.v) > probe.maxLength
  /\ probe.text.v[probe.maxLength] = " "
  /\ \E k \in 1..(probe.maxLength - 1) : probe.text.v[k] = "\n"
  /\ probe.outs[1] =
       Str(SubSeq(probe.text.v, 1, probe.maxLength - 1) \o <<".", ".", ".">>)

\* The base URL configured for invocation i: STRAPI_URL of its
\* environment, the built-in address when it sets none.
ConfiguredBase(i) ==
  IF Truthy(OptGet(cfg[i], "STRAPI_URL")) THEN Get(cfg[i], "STRAPI_URL").v
  ELSE <<"h","t","t","p","s",":","/","/","t","i","m","e","l","y","-","b",
         "e","n","e","f","i","t","-","e","6","3","d","5","4","0","3","1","7",
         ".","s","t","r","a","p","i","a","p","p",".","c","o","m">>

\* The canonical URL of a record under a base URL.
CanonicalUrl(base, rec) ==
  LET url == Get(rec, "url")
  IN IF url.t = "string" /\ Len(url.v) > 0
     THEN IF Len(url.v) >= 4 /\ SubSeq(url.v, 1, 4) = <<"h","t","t","p">>
          THEN url.v
          ELSE base \o url.v
     ELSE base \o <<"/","b","l","o","g","/">>
            \o NatDigits(IF Get(rec, "articleId").t = "number"
                         THEN Get(rec, "articleId").v ELSE Get(rec, "id").v)

\* The record says where it lives: it has a url, an articleId or an id.
HasAddress(rec) ==
  \E f \in {"url", "articleId", "id"} : Truthy(Get(rec, f))

\* C13 (as stated): in the "wildcard" and in the "limit" revision the url
\* of a search document and of a fetch document is the canonical URL of
\* the record under the configured base URL: the record's url when it
\* begins with "http", the base URL followed by it otherwise, and
\* {baseUrl}/blog/{articleId}, or {baseUrl}/blog/{id} without articleId,
\* when the record has no url.
C13_UrlCanonical ==
  \A i \in Invs :
    ( /\ rev[i] \in {"wildcard", "limit"}
      /\ SearchedOne(i) \/ FetchedOne(i)
      /\ HasAddress(SentRecord(i)) )
      => Get(IF tool[i] = "search" THEN SearchDocsOf(i)[1] ELSE FetchDocOf(i),
             "url")
           = Str(CanonicalUrl(ConfiguredBase(i), SentRecord(i)))

\* The text of the first member of the record, in the given order, that is
\* a non-empty string; "No content available" when there is none.
FirstNonEmpty(rec, order) ==
  LET full == {k \in 1..Len(order) :
                 Get(rec, order[k]).t = "string" /\ Len(Get(rec, order[k]).v) > 0}
  IN IF full = {}
     THEN <<"N","o"," ","c","o","n","t","e","n","t"," ","a","v","a","i","l",
            "a","b","l","e">>
     ELSE Get(rec, order[CHOOSE k \in full : \A j \in full : k <= j]).v

\* The body text members of the record are too short to be cut.
ShortBody(rec) ==
  \A f \in {"summary", "excerpt", "description", "fullContent", "content",
            "body"} :
    Get(rec, f) = Undef \/ Len(Get(rec, f).v) <= 1

C15_FetchTextOrder ==
  \A i \in Invs :
    (FetchedOne(i) /\ rev[i] \in {"wildcard", "server"})
      => Get(FetchDocOf(i), "text")
           = Str(FirstNonEmpty(SentRecord(i),
                   <<"content", "fullContent", "description", "summary">>))

\* The record has an upstream id, and its string form.
IdPresent(rec) ==
  \/ Get(rec, "id").t = "number"
  \/ Get(rec, "id").t = "string" /\ Len(Get(rec, "id").v) > 0
IdText(rec) ==
  IF Get(rec, "id").t = "number" THEN NatDigits(Get(rec, "id").v)
  ELSE Get(rec, "id").v

\* The title of the record, "Untitled Article" when it has none.
TitleOrPlaceholder(rec) ==
  IF Get(rec, "title").t = "string" /\ Len(Get(rec, "title").v) > 0
  THEN Get(rec, "title").v
  ELSE <<"U","n","t","i","t","l","e","d"," ","A","r","t","i","c","l","e">>

\* A string generated by Math.random().toString(): "0." and digits.
IsRandomText(x) ==
  /\ x.t = "string" /\ Len(x.v) >= 3
  /\ x.v[1] = "0" /\ x.v[2] = "."
  /\ \A k \in 3..Len(x.v) : IsDigit(x.v[k])

\* C16: the normalizers of the revisions that share the code of the
\* "wildcard" revision ("wildcard", "limit", "logging") return a document
\* for every record, however sparse, with a non-empty id and title: the id
\* is the string form of the upstream id when it has one, and otherwise a
\* random string in a search document and "unknown" in a fetch document;
\* the title is the upstream title or "Untitled Article".
C16_IdAndTitleDefaulted ==
  \A i \in Invs :
    (Ended(i) /\ rev[i] \in {"wildcard", "limit", "logging"})
      => /\ tool[i] = "search" =>
              /\ SearchedOne(i)
              /\ IF IdPresent(SentRecord(i))
                 THEN Get(SearchDocsOf(i)[1], "id") = Str(IdText(SentRecord(i)))
                 ELSE IsRandomText(Get(SearchDocsOf(i)[1], "id"))
              /\ Get(SearchDocsOf(i)[1], "title")
                   = Str(TitleOrPlaceholder(SentRecord(i)))
         /\ tool[i] = "fetch" =>
              /\ FetchedOne(i)
              /\ Get(FetchDocOf(i), "id")
                   = Str(IF IdPresent(SentRecord(i)) THEN IdText(SentRecord(i))
                         ELSE <<"u","n","k","n","o","w","n">>)
              /\ Get(FetchDocOf(i), "title")
                   = Str(TitleOrPlaceholder(SentRecord(i)))

\* C16 witness: the "wildcard" revision returned a search document with a
\* random id and the placeholder title for a record with neither.
C16_Witness ==
  \E i \in Invs :
    /\ SearchedOne(i) /\ rev[i] = "wildcard"
    /\ SentRecord(i) = Obj([id |-> Undef, title |-> Undef])
    /\ IsRandomText(Get(SearchDocsOf(i)[1], "id"))
    /\ Get(SearchDocsOf(i)[1], "title")
         = Str(<<"U","n","t","i","t","l","e","d"," ","A","r","t","i","c","l","e">>)

\* C17 (as stated): in the fetch document of the "classifier", "logging" and
\* "server" revisions the metadata bag carries the adapter's fields with the
\* upstream metadata object merged on top: every upstream metadata member
\* appears in the output with the upstream value, and the author is the
\* record's own when the upstream metadata has none.
C17_MetadataMerged ==
  \A i \in Invs :
    (FetchedOne(i) /\ rev[i] \in {"classifier", "logging", "server"})
      => LET rec == SentRecord(i)
             up == Get(rec, "metadata")
             out == Get(FetchDocOf(i), "metadata")
         IN /\ out.t = "object"
            /\ up.t = "object" =>
                 \A k \in DOMAIN up.v : Get(out, k) = up.v[k]
            /\ (up.t # "object" \/ "author" \notin DOMAIN up.v) =>
                 Get(out, "author") = Get(rec, "author")

\* The sequence w occurs in the sequence s.
Occurs(s, w) ==
  \E a \in 1..(Len(s) - Len(w) + 1) : SubSeq(s, a, a + Len(w) - 1) = w

\* The body has the content wrapper with a non-empty text.
HasWrapper(rp) ==
  /\ Decoded(rp) /\ IsArray(Get(rp.data, "content"))
  /\ Len(Get(rp.data, "content").v) > 0
  /\ InnerText(rp).t \in {"string", "json"}

\* C18 (as stated): the client of the "wildcard" and of the "server"
\* revision classifies a completed round trip by status, then error field,
\* then content wrapper: a non-success status fails with UpstreamHTTPError
\* whose message carries the status code and the response body text; a
\* decoded body with an error field fails with UpstreamAPIError carrying the
\* upstream message, content wrapper or not; otherwise a decodable wrapper
\* text is returned decoded, and a body without the wrapper is returned as
\* it is.
C18_ClientClassification ==
  \A i \in Invs :
    (Ended(i) /\ rev[i] \in {"wildcard", "server"} /\ reply[i].k = "http")
      => LET rp == reply[i]
             out == CallStrapiAPI(rev[i], rp)
         IN /\ HttpRejected(rp) =>
                 /\ ~out.ok /\ out.error.kind = "UpstreamHTTPError"
                 /\ Occurs(out.error.message.v, NatDigits(rp.status))
                 /\ Occurs(out.error.message.v, rp.body)
            /\ HasErrorField(rp) =>
                 /\ ~out.ok /\ out.error.kind = "UpstreamAPIError"
                 /\ out.error.message = Get(Get(rp.data, "error"), "message")
            /\ (Decoded(rp) /\ ~HasErrorField(rp) /\ HasWrapper(rp)
                  /\ JsonParses(InnerText(rp))) =>
                 out = Return(JsonParse(InnerText(rp)))
            /\ (Decoded(rp) /\ ~HasErrorField(rp) /\ ~HasWrapper(rp)) =>
                 out = Return(rp.data)

\* C20: a fetch of the "wildcard" or of the "limit" revision whose backend
\* response has the content wrapper with a text that is not JSON never
\* succeeds: the client returns the parse-failure sentinel, which has no
\* article record, and the invocation ends in the NotFound error raised to
\* the caller.
C20_UndecodableFetchNotFound ==
  \A i \in Invs :
    (Ended(i) /\ tool[i] = "fetch" /\ rev[i] \in {"wildcard", "limit"}
       /\ UndecodableInner(reply[i]))
      => /\ CallStrapiAPI(rev[i], reply[i]) = Return(ParseFailureSentinel)
         /\ NoArticleRecord(ParseFailureSentinel)
         /\ result[i] = NotFoundOutcome

\* C20 witness: a fetch of the "limit" revision answered with a wrapped
\* non-JSON text has ended in the NotFound error.
C20_Witness ==
  \E i \in Invs :
    /\ Ended(i) /\ tool[i] = "fetch" /\ rev[i] = "limit"
    /\ UndecodableInner(reply[i])
    /\ Raised(i) /\ result[i].error.kind = "NotFound"

\* The outcome of an ended invocation is a response envelope or an error,
\* and not both.
IsEnvelope(v) ==
  /\ v.t = "object" /\ IsArray(Get(v, "content"))
  /\ Len(Get(v, "content").v) = 1
  /\ PayloadText(v).t \in {"string", "json"}
OneOutcome(i) ==
  IF result[i].ok THEN IsEnvelope(result[i].value)
  ELSE result[i].error.kind # "none"

\* C21: provided the backend exchange completes, every tool invocation of
\* the "wildcard" and of the "classifier" revision eventually ends; it has
\* no outcome before its backend exchange has completed and the handler has
\* run on, it ends with one outcome, a response envelope or an error, and
\* the outcome never changes afterwards.
C21_InvocationFinishesOnce ==
  /\ \A i \in Invs :
       /\ [](rev[i] \in {"wildcard", "classifier"} /\ Called(i)
               => <>Ended(i))
       /\ [](~Ended(i) => result[i] = NoResult)
       /\ [](rev[i] \in {"wildcard", "classifier"} /\ Ended(i) =>
               /\ reply[i] # NoReply
               /\ OneOutcome(i))
  /\ [][\A i \in Invs : Ended(i) => Ended(i)' /\ result'[i] = result[i]]_vars

\* C21 witness: invocations have ended after a transport failure and after
\* a response; here a search of the "classifier" revision whose exchange
\* failed in transport has ended with an envelope.
C21_Witness ==
  \E i \in Invs :
    /\ Ended(i) /\ rev[i] = "classifier" /\ tool[i] = "search"
    /\ TransportFailed(reply[i])
    /\ result[i].ok /\ IsEnvelope(result[i].value)

====
